---- MODULE Spec2Model ----
(***************************************************************************)
(* Model of the gorm tracing plugin of istio-gorm-tracing.go: the         *)
(* process-wide carrier H, the before hooks (_injectBefore through the    *)
(* six beforeXxx wrappers) and the shared after hook, together with the   *)
(* host that drives them: request handlers that assign H and gorm         *)
(* operations that call the hooks on a *gorm.DB handle.  Startup          *)
(* (NewDefault, Initialize) is modelled as well; Init is the state after  *)
(* a successful startup, InitBoot the state before it.                    *)
(***************************************************************************)
EXTENDS Integers, Sequences, FiniteSets, TLC

\* ---------------------------------------------------------------- bounds
NumHandles == 2     \* *gorm.DB handles (one Statement each) in flight
NumRequests == 2    \* concurrently handled requests
MaxOps == 2         \* database operations begun in one behaviour
MaxTime == 3        \* largest clock reading
MaxExtra == 1       \* out-of-order host events in one behaviour

Handles == 1..NumHandles
Requests == 1..NumRequests

\* Each handle is a session opened by one request handler.
Owner(h) == ((h - 1) % NumRequests) + 1

\* ------------------------------------------------------------- constants
spankey == "istio-gorm-tracing"
_opCreate == "create"
_opUpdate == "update"
_opQuery == "query"
_opDelete == "delete"
_opRow == "row"
_opRaw == "raw"
OpKinds == {_opCreate, _opUpdate, _opQuery, _opDelete, _opRow, _opRaw}
KindSeq == <<_opCreate, _opDelete, _opQuery, _opRow, _opUpdate, _opRaw>>

\* The workload: the kinds of operation the session on handle h issues.
KindsOf(h) ==
  {KindSeq[i] : i \in {j \in 1..6 : j % NumHandles = h % NumHandles}}

\* ------------------------------------------------- carrier and B3 decode
\* A header value is a sequence of one-character strings.
HexDigit(c) ==
  CASE c = "0" -> 0 [] c = "1" -> 1 [] c = "2" -> 2 [] c = "3" -> 3
    [] c = "4" -> 4 [] c = "5" -> 5 [] c = "6" -> 6 [] c = "7" -> 7
    [] c = "8" -> 8 [] c = "9" -> 9 [] c = "a" -> 10 [] c = "b" -> 11
    [] c = "c" -> 12 [] c = "d" -> 13 [] c = "e" -> 14 [] c = "f" -> 15
    [] OTHER -> -1

RECURSIVE HexValue(_)
HexValue(s) ==
  IF Len(s) = 0 THEN 0
  ELSE 16 * HexValue(SubSeq(s, 1, Len(s) - 1)) + HexDigit(s[Len(s)])

\* strconv.ParseUint(value, 16, 64): an empty string, a non-hex character
\* or more than 64 bits is an error.  Header values here stay below 8
\* digits, so the value always fits.
ParseUint(s) ==
  IF Len(s) = 0 \/ Len(s) > 16 \/ \E i \in 1..Len(s) : HexDigit(s[i]) < 0
  THEN [ok |-> FALSE, val |-> 0]
  ELSE [ok |-> TRUE, val |-> HexValue(s)]

\* jaeger.TraceIDFromString: at most 32 hex digits, the last 16 are Low.
TraceIDFromString(s) ==
  IF Len(s) > 32 THEN [ok |-> FALSE, val |-> [High |-> 0, Low |-> 0]]
  ELSE IF Len(s) > 16
  THEN LET hi == ParseUint(SubSeq(s, 1, Len(s) - 16))
           lo == ParseUint(SubSeq(s, Len(s) - 15, Len(s)))
       IN  IF hi.ok /\ lo.ok
           THEN [ok |-> TRUE, val |-> [High |-> hi.val, Low |-> lo.val]]
           ELSE [ok |-> FALSE, val |-> [High |-> 0, Low |-> 0]]
  ELSE LET lo == ParseUint(s)
       IN  IF lo.ok
           THEN [ok |-> TRUE, val |-> [High |-> 0, Low |-> lo.val]]
           ELSE [ok |-> FALSE, val |-> [High |-> 0, Low |-> 0]]

TraceIDIsValid(t) == t.High # 0 \/ t.Low # 0

\* strings.ToLower on the header names net/http produces.
ToLower(k) ==
  CASE k = "X-B3-Traceid" -> "x-b3-traceid"
    [] k = "X-B3-Spanid" -> "x-b3-spanid"
    [] k = "X-B3-Parentspanid" -> "x-b3-parentspanid"
    [] k = "X-B3-Sampled" -> "x-b3-sampled"
    [] OTHER -> k

emptyContext ==
  [traceID |-> [High |-> 0, Low |-> 0], spanID |-> 0, parentID |-> 0,
   sampled |-> FALSE]

SpanContextIsValid(c) == TraceIDIsValid(c.traceID) /\ c.spanID # 0

\* The carriers a request can arrive with.  A nil http.Header reads as an
\* empty map, so HdrNone is both "unset" and "empty".
HdrNone == [k \in {} |-> <<>>]
HdrA == [k \in {"X-B3-Traceid", "X-B3-Spanid", "X-B3-Sampled"} |->
          CASE k = "X-B3-Traceid" -> <<"1", "a">>
            [] k = "X-B3-Spanid" -> <<"0", "f">>
            [] OTHER -> <<"1">>]
HdrB == [k \in {"X-B3-Traceid", "X-B3-Spanid", "X-B3-Parentspanid",
                "X-B3-Sampled"} |->
          CASE k = "X-B3-Traceid" -> <<"2", "b">>
            [] k = "X-B3-Spanid" -> <<"f", "1">>
            [] k = "X-B3-Parentspanid" -> <<"0", "a">>
            [] OTHER -> <<"0">>]
HdrBadTrace == [k \in {"X-B3-Traceid", "X-B3-Spanid"} |->
          CASE k = "X-B3-Traceid" -> <<"z", "z">>
            [] OTHER -> <<"0", "f">>]
HdrNoSpan == [k \in {"X-B3-Traceid"} |-> <<"1", "a">>]
HdrBadParent == [k \in {"X-B3-Traceid", "X-B3-Spanid",
                        "X-B3-Parentspanid"} |->
          CASE k = "X-B3-Traceid" -> <<"1", "a">>
            [] k = "X-B3-Spanid" -> <<"0", "f">>
            [] OTHER -> <<"x">>]
CarrierSeq == <<HdrA, HdrB, HdrNone, HdrBadTrace, HdrNoSpan, HdrBadParent>>

\* The workload: the headers request r can arrive with.
Inbound(r) ==
  {CarrierSeq[i] : i \in {j \in 1..6 : j % NumRequests = r % NumRequests}}

\* The value stored under the lower-cased name, if the carrier has one.
HasField(carrier, name) == \E k \in DOMAIN carrier : ToLower(k) = name
Field(carrier, name) ==
  carrier[CHOOSE k \in DOMAIN carrier : ToLower(k) = name]

\* zipkin.Propagator.Extract over HTTPHeadersCarrier(H): a parse error of
\* any visited field, or an invalid trace id, yields the empty context and
\* an error; otherwise the decoded context.
Extract(carrier) ==
  LET tr == IF HasField(carrier, "x-b3-traceid")
            THEN TraceIDFromString(Field(carrier, "x-b3-traceid"))
            ELSE [ok |-> TRUE, val |-> [High |-> 0, Low |-> 0]]
      sp == IF HasField(carrier, "x-b3-spanid")
            THEN ParseUint(Field(carrier, "x-b3-spanid"))
            ELSE [ok |-> TRUE, val |-> 0]
      pa == IF HasField(carrier, "x-b3-parentspanid")
            THEN ParseUint(Field(carrier, "x-b3-parentspanid"))
            ELSE [ok |-> TRUE, val |-> 0]
      sampled == /\ HasField(carrier, "x-b3-sampled")
                 /\ Field(carrier, "x-b3-sampled") \in
                      {<<"1">>, <<"t", "r", "u", "e">>}
  IN  IF ~(tr.ok /\ sp.ok /\ pa.ok)
      THEN [ctx |-> emptyContext, err |-> "parse"]
      ELSE IF ~TraceIDIsValid(tr.val)
      THEN [ctx |-> emptyContext, err |-> "SpanContextNotFound"]
      ELSE [ctx |-> [traceID |-> tr.val, spanID |-> sp.val,
                     parentID |-> pa.val, sampled |-> sampled],
            err |-> "nil"]


\* ----------------------------------------------------------- span factory
NoTime == -1

\* tracer.randomID(): the n-th identifier the tracer hands out.
NewID(n) == 100 + n

\* Variant of ParentOf: the last valid reference wins, so the span active
\* in the operation's context overrides the carrier.
ParentOf_LastWins(refs) ==
  IF \E i \in 1..Len(refs) : SpanContextIsValid(refs[i])
  THEN refs[CHOOSE i \in 1..Len(refs) :
              /\ SpanContextIsValid(refs[i])
              /\ \A j \in (i + 1)..Len(refs) : ~SpanContextIsValid(refs[j])]
  ELSE emptyContext

\* The parent the tracer picks among the ChildOf references: the first one
\* that is a valid span context (invalid references are skipped).
ParentOf(refs) ==
  IF \E i \in 1..Len(refs) : SpanContextIsValid(refs[i])
  THEN refs[CHOOSE i \in 1..Len(refs) :
              /\ SpanContextIsValid(refs[i])
              /\ \A j \in 1..(i - 1) : ~SpanContextIsValid(refs[j])]
  ELSE emptyContext

\* tracer.StartSpan(operationName, refs...): a child inherits the parent's
\* trace id and sampling and takes the parent's span id as parent id; with
\* no valid parent a root of a new trace is started (const sampler, 1).
StartSpan(operationName, refs, startTime, n) ==
  LET parent == ParentOf(refs)
      context ==
        IF SpanContextIsValid(parent)
        THEN [traceID |-> parent.traceID, spanID |-> NewID(n),
              parentID |-> parent.spanID, sampled |-> parent.sampled]
        ELSE [traceID |-> [High |-> 0, Low |-> NewID(n)],
              spanID |-> NewID(n), parentID |-> 0, sampled |-> TRUE]
  IN  [operationName |-> operationName, context |-> context,
       startTime |-> startTime, endTime |-> NoTime, finished |-> 0,
       logs |-> <<>>]

\* The values db.Statement.Context takes: nil, a context with no active
\* span, and a context in which the caller has an active span.
NilContext == "nil"
Background == "background"
WithCallerSpan == "withspan"
CallerSpanContext ==
  [traceID |-> [High |-> 0, Low |-> 7], spanID |-> 9, parentID |-> 0,
   sampled |-> TRUE]

\* The workload: the context the host passes with each kind of operation.
ContextOf(kind) ==
  CASE kind \in {_opCreate, _opDelete} -> Background
    [] kind \in {_opQuery, _opRow} -> WithCallerSpan
    [] OTHER -> NilContext

\* opentracing.SpanFromContext: the references the context contributes.
SpanFromContext(ctx) ==
  IF ctx = WithCallerSpan THEN <<CallerSpanContext>> ELSE <<>>

\* opentracing.StartSpanFromContext(ctx, op, ChildOf(spanCtx)): the span
\* active in ctx, if any, is appended as a further ChildOf reference.
StartSpanFromContext(ctx, op, spanCtx, startTime, n) ==
  StartSpan(op, <<spanCtx>> \o SpanFromContext(ctx), startTime, n)

\* ------------------------------------------------------ statement values
NoError == "nil"
Errors == {NoError, "duplicate key"}

\* The table each kind of operation of the host addresses.
TableOf(kind) ==
  IF kind \in {_opCreate, _opUpdate, _opQuery} THEN "users" ELSE "orders"

SqlVerb(kind) ==
  CASE kind = _opCreate -> "INSERT INTO"
    [] kind = _opUpdate -> "UPDATE"
    [] kind = _opQuery -> "SELECT * FROM"
    [] kind = _opDelete -> "DELETE FROM"
    [] kind = _opRow -> "SELECT COUNT(*) FROM"
    [] OTHER -> "EXEC ON"

\* The statement gorm builds for an operation: text with one placeholder
\* and the bound value.
StatementSQL(kind, table) == <<SqlVerb(kind), table, "WHERE id =", "?">>
StatementVars(kind) == IF kind = _opCreate THEN <<"7">> ELSE <<"42">>

\* db.Dialector.Explain(sql, vars...): placeholders are replaced, in
\* order, by the bound values.
RECURSIVE Explain(_, _)
Explain(sql, vars) ==
  IF Len(sql) = 0 THEN <<>>
  ELSE IF Head(sql) = "?" /\ Len(vars) > 0
  THEN <<Head(vars)>> \o Explain(Tail(sql), Tail(vars))
  ELSE <<Head(sql)>> \o Explain(Tail(sql), vars)

\* ----------------------------------------------------------- registration
\* The order in which Initialize visits the kinds.
RegistrationOrder ==
  <<_opCreate, _opUpdate, _opQuery, _opDelete, _opRow, _opRaw>>

_eventBeforeCreate == "istio-gorm-tracing-event:before_create"
_eventAfterCreate == "istio-gorm-tracing-event:after_create"
_eventBeforeUpdate == "istio-gorm-tracing-event:before_update"
_eventAfterUpdate == "istio-gorm-tracing-event:after_update"
_eventBeforeQuery == "istio-gorm-tracing-event:before_query"
_eventAfterQuery == "istio-gorm-tracing-event:after_query"
_eventBeforeDelete == "istio-gorm-tracing-event:before_delete"
_eventAfterDelete == "istio-gorm-tracing-event:after_delete"
_eventBeforeRow == "istio-gorm-tracing-event:before_row"
_eventAfterRow == "istio-gorm-tracing-event:after_row"
_eventBeforeRaw == "istio-gorm-tracing-event:before_raw"
_eventAfterRaw == "istio-gorm-tracing-event:after_raw"

\* The name under which each registration is made.
EventName(kind, at) ==
  CASE kind = _opCreate ->
         IF at = "before" THEN _eventBeforeCreate ELSE _eventAfterCreate
    [] kind = _opUpdate ->
         IF at = "before" THEN _eventBeforeUpdate ELSE _eventAfterUpdate
    [] kind = _opQuery ->
         IF at = "before" THEN _eventBeforeQuery ELSE _eventAfterQuery
    [] kind = _opDelete ->
         IF at = "before" THEN _eventBeforeDelete ELSE _eventAfterDelete
    [] kind = _opRow ->
         IF at = "before" THEN _eventBeforeRow ELSE _eventAfterRow
    [] OTHER ->
         IF at = "before" THEN _eventBeforeRaw ELSE _eventAfterRaw

\* Variant of BeforeHandler: every kind registers beforeCreate.
BeforeHandler_AllCreate(kind) == "beforeCreate"

\* The Go function each kind's before registration passes to Register.
BeforeHandler(kind) ==
  CASE kind = _opCreate -> "beforeCreate"
    [] kind = _opUpdate -> "beforeUpdate"
    [] kind = _opQuery -> "beforeQuery"
    [] kind = _opDelete -> "beforeDelete"
    [] kind = _opRow -> "beforeRow"
    [] OTHER -> "beforeRaw"

\* The twelve registrations of Initialize, in order: for each kind a
\* handler placed Before("gorm:<kind>") and one placed After("gorm:<kind>"),
\* under the event names _eventBeforeXxx and _eventAfterXxx.
Registrations ==
  [k \in 1..12 |->
    LET kind == RegistrationOrder[(k + 1) \div 2]
    IN  IF k % 2 = 1
        THEN [kind |-> kind, at |-> "before",
              name |-> EventName(kind, "before"),
              handler |-> BeforeHandler(kind)]
        ELSE [kind |-> kind, at |-> "after",
              name |-> EventName(kind, "after"),
              handler |-> "after"]]

\* The value a Register call returns: nil, or the error of the k-th call.
NoRegError == 0
RegOutcomes ==
  {[k \in 1..12 |-> IF k \in F THEN k ELSE NoRegError] : F \in SUBSET (1..12)}

\* Variant of FirstError: the loop keeps going and returns the last
\* error it met.
RECURSIVE FirstError_LastWins(_)
FirstError_LastWins(errs) ==
  IF Len(errs) = 0 THEN NoRegError
  ELSE IF errs[Len(errs)] # NoRegError THEN errs[Len(errs)]
  ELSE FirstError_LastWins(SubSeq(errs, 1, Len(errs) - 1))

\* The loop of Initialize over the returned errors: the first one that
\* is not nil is returned, nil if there is none.
RECURSIVE FirstError(_)
FirstError(errs) ==
  IF Len(errs) = 0 THEN NoRegError
  ELSE IF Head(errs) # NoRegError THEN Head(errs)
  ELSE FirstError(Tail(errs))

\* The names of the callbacks gorm holds once the registrations with the
\* given outcomes have been made: a failed Register adds nothing.
Registered(outcome) ==
  {Registrations[k].name : k \in {j \in 1..12 : outcome[j] = NoRegError}}

AllSucceed == [k \in 1..12 |-> NoRegError]

\* ------------------------------------------------------------------ state
VARIABLES
  H,         \* the process-wide carrier (var H http.Header)
  reqHdr,    \* the headers each request arrived with
  reqPc,     \* position of each request handler
  db,        \* per handle: Statement.Context, Error, Table, SQL, Vars
  pc,        \* per handle: position of the operation gorm runs on it
  cur,       \* per handle: number of the operation it carries (0: none)
  settings,  \* per handle: the value stored under spankey
  spans,     \* every span the tracer has started
  reported,  \* spans handed to the reporter, in order
  now,       \* last clock reading
  ops,       \* history: the operations begun, in order
  diag,      \* diagnostics written through db.Logger.Error
  calls,     \* history: per handle, how often each hook has been called
  extra,     \* out-of-order host events so far
  proc,      \* position of the process in its startup
  tracer,    \* the process-wide tracer (opentracing.GlobalTracer())
  registry,  \* the names of the callbacks registered with gorm
  initErr    \* the value Initialize returned

vars == <<H, reqHdr, reqPc, db, pc, cur, settings, spans, reported, now,
          ops, diag, calls, extra, proc, tracer, registry, initErr>>

\* The part of the state only startup writes.
boot == <<proc, tracer, registry, initErr>>

\* The process-wide tracer: opentracing's default until one is set.
NoopTracer == "noop"
JaegerTracer == "jaeger"

\* Values found under spankey: nothing, a nil interface, something that
\* is not an opentracing.Span, or a span (its index in spans).
Absent == 0
NilValue == -1
NotASpan == -2

IdleDB ==
  [Context |-> Background, Error |-> NoError, Table |-> "", SQL |-> <<>>,
   Vars |-> <<>>, kind |-> ""]

Init ==
  /\ H = HdrNone
  /\ reqHdr = [r \in Requests |-> HdrNone]
  /\ reqPc = [r \in Requests |-> "idle"]
  /\ db = [h \in Handles |-> IdleDB]
  /\ pc = [h \in Handles |-> "idle"]
  /\ cur = [h \in Handles |-> 0]
  /\ settings = [h \in Handles |-> Absent]
  /\ spans = <<>>
  /\ reported = <<>>
  /\ now = 0
  /\ ops = <<>>
  /\ diag = {}
  /\ calls = [h \in Handles |-> [before |-> 0, after |-> 0]]
  /\ extra = 0
  /\ proc = "running"
  /\ tracer = JaegerTracer
  /\ registry = Registered(AllSucceed)
  /\ initErr = NoRegError

\* ------------------------------------------------------------------- host
\* The handler of a request that arrived with headers c runs its first
\* statement: istiogormtracing.H = c.Request.Header.
SetH(r, c) ==
  /\ proc = "running"
  /\ reqPc[r] = "idle"
  /\ reqHdr' = [reqHdr EXCEPT ![r] = c]
  /\ H' = c
  /\ reqPc' = [reqPc EXCEPT ![r] = "set"]
  /\ UNCHANGED <<db, pc, cur, settings, spans, reported, now, ops, diag,
                 calls, extra, boot>>

\* The handler that owns handle h issues an operation of the given kind
\* on it; a handle that finished an operation may be used again and keeps
\* its Statement, hence its settings.
BeginOp(h, kind) ==
  /\ proc = "running"
  /\ pc[h] \in {"idle", "done"}
  /\ reqPc[Owner(h)] = "set"
  /\ Len(ops) < MaxOps
  /\ db' = [db EXCEPT ![h] =
              [Context |-> ContextOf(kind), Error |-> NoError,
               Table |-> TableOf(kind),
               SQL |-> StatementSQL(kind, TableOf(kind)),
               Vars |-> StatementVars(kind), kind |-> kind]]
  /\ pc' = [pc EXCEPT ![h] = "before"]
  /\ cur' = [cur EXCEPT ![h] = Len(ops) + 1]
  /\ ops' = Append(ops, [handle |-> h, kind |-> kind,
                         Context |-> ContextOf(kind), Error |-> NoError])
  /\ UNCHANGED <<H, reqHdr, reqPc, settings, spans, reported, now, diag,
                 calls, extra, boot>>

\* gorm runs the operation between the two hooks and records its error.
Exec(h, e) ==
  /\ pc[h] = "exec"
  /\ db' = [db EXCEPT ![h].Error = e]
  /\ ops' = [ops EXCEPT ![cur[h]].Error = e]
  /\ pc' = [pc EXCEPT ![h] = "after"]
  /\ UNCHANGED <<H, reqHdr, reqPc, cur, settings, spans, reported, now,
                 diag, calls, extra, boot>>

\* ------------------------------------------------------------------ hooks
\* gorm runs, around the operation on handle h, the handlers registered
\* at that position for the operation's kind.
Fires(h, at, handler) ==
  \E k \in 1..12 :
    /\ Registrations[k].kind = db[h].kind
    /\ Registrations[k].at = at
    /\ Registrations[k].handler = handler
    /\ Registrations[k].name \in registry

\* A clock reading: every reading is later than the one before, up to the
\* last instant of the behaviour.
ClockReadings == {IF now < MaxTime THEN now + 1 ELSE now}

\* Variant of InjectBefore: a decode error of the carrier makes the hook
\* return without a span.
InjectBefore_StopOnDecodeError(h, op, t) ==
  IF db[h].Context = NilContext
  THEN /\ diag' = diag \cup {<<cur[h], "before">>}
       /\ UNCHANGED <<H, db, settings, spans, reported, now>>
  ELSE IF Extract(H).err # "nil"
  THEN UNCHANGED <<H, db, settings, spans, reported, now, diag>>
  ELSE LET spanCtx == Extract(H).ctx
           span == StartSpanFromContext(db[h].Context, op, spanCtx, t,
                                        Len(spans) + 1)
       IN  /\ spans' = Append(spans, span @@ [createdBy |-> cur[h],
                                               finishedBy |-> <<>>])
           /\ settings' = [settings EXCEPT ![h] = Len(spans) + 1]
           /\ now' = t
           /\ UNCHANGED <<H, db, reported, diag>>

\* Variant of InjectBefore: the check of the statement's context is
\* missing.
InjectBefore_NoContextCheck(h, op, t) ==
  LET spanCtx == Extract(H).ctx
      span == StartSpanFromContext(db[h].Context, op, spanCtx, t,
                                   Len(spans) + 1)
  IN  /\ spans' = Append(spans, span @@ [createdBy |-> cur[h],
                                          finishedBy |-> <<>>])
      /\ settings' = [settings EXCEPT ![h] = Len(spans) + 1]
      /\ now' = t
      /\ UNCHANGED <<H, db, reported, diag>>

\* Variant of InjectBefore: the span is kept in one slot shared by all
\* operations instead of the operation's own settings.
InjectBefore_SharedSlot(h, op, t) ==
  IF db[h].Context = NilContext
  THEN /\ diag' = diag \cup {<<cur[h], "before">>}
       /\ UNCHANGED <<H, db, settings, spans, reported, now>>
  ELSE LET spanCtx == Extract(H).ctx
           span == StartSpanFromContext(db[h].Context, op, spanCtx, t,
                                        Len(spans) + 1)
       IN  /\ spans' = Append(spans, span @@ [createdBy |-> cur[h],
                                               finishedBy |-> <<>>])
           /\ settings' = [g \in Handles |-> Len(spans) + 1]
           /\ now' = t
           /\ UNCHANGED <<H, db, reported, diag>>

\* Variant of InjectBefore: a span already stored on the handle is kept
\* and the new span is not stored.
InjectBefore_KeepsFirst(h, op, t) ==
  IF db[h].Context = NilContext
  THEN /\ diag' = diag \cup {<<cur[h], "before">>}
       /\ UNCHANGED <<H, db, settings, spans, reported, now>>
  ELSE LET spanCtx == Extract(H).ctx
           span == StartSpanFromContext(db[h].Context, op, spanCtx, t,
                                        Len(spans) + 1)
       IN  /\ spans' = Append(spans, span @@ [createdBy |-> cur[h],
                                               finishedBy |-> <<>>])
           /\ settings' = IF settings[h] \notin {Absent, NilValue, NotASpan}
                             /\ spans[settings[h]].finished = 0
                          THEN settings
                          ELSE [settings EXCEPT ![h] = Len(spans) + 1]
           /\ now' = t
           /\ UNCHANGED <<H, db, reported, diag>>

\* _injectBefore(db, op) on handle h, reading the clock as t.  A call
\* with db = nil returns at once and changes nothing.  The error of
\* Extract is discarded.  createdBy and finishedBy are history fields.
InjectBefore(h, op, t) ==
  IF db[h].Context = NilContext
  THEN /\ diag' = diag \cup {<<cur[h], "before">>}
       /\ UNCHANGED <<H, db, settings, spans, reported, now>>
  ELSE LET spanCtx == Extract(H).ctx
           span == StartSpanFromContext(db[h].Context, op, spanCtx, t,
                                        Len(spans) + 1)
       IN  /\ spans' = Append(spans, span @@ [createdBy |-> cur[h],
                                               finishedBy |-> <<>>])
           /\ settings' = [settings EXCEPT ![h] = Len(spans) + 1]
           /\ now' = t
           /\ UNCHANGED <<H, db, reported, diag>>


beforeCreate(h) ==
  /\ pc[h] = "before" /\ Fires(h, "before", "beforeCreate")
  /\ \E t \in ClockReadings : InjectBefore(h, _opCreate, t)
  /\ pc' = [pc EXCEPT ![h] = "exec"]
  /\ calls' = [calls EXCEPT ![h].before = @ + 1]
  /\ UNCHANGED <<reqHdr, reqPc, cur, ops, extra, boot>>

beforeUpdate(h) ==
  /\ pc[h] = "before" /\ Fires(h, "before", "beforeUpdate")
  /\ \E t \in ClockReadings : InjectBefore(h, _opUpdate, t)
  /\ pc' = [pc EXCEPT ![h] = "exec"]
  /\ calls' = [calls EXCEPT ![h].before = @ + 1]
  /\ UNCHANGED <<reqHdr, reqPc, cur, ops, extra, boot>>

beforeQuery(h) ==
  /\ pc[h] = "before" /\ Fires(h, "before", "beforeQuery")
  /\ \E t \in ClockReadings : InjectBefore(h, _opQuery, t)
  /\ pc' = [pc EXCEPT ![h] = "exec"]
  /\ calls' = [calls EXCEPT ![h].before = @ + 1]
  /\ UNCHANGED <<reqHdr, reqPc, cur, ops, extra, boot>>

beforeDelete(h) ==
  /\ pc[h] = "before" /\ Fires(h, "before", "beforeDelete")
  /\ \E t \in ClockReadings : InjectBefore(h, _opDelete, t)
  /\ pc' = [pc EXCEPT ![h] = "exec"]
  /\ calls' = [calls EXCEPT ![h].before = @ + 1]
  /\ UNCHANGED <<reqHdr, reqPc, cur, ops, extra, boot>>

beforeRow(h) ==
  /\ pc[h] = "before" /\ Fires(h, "before", "beforeRow")
  /\ \E t \in ClockReadings : InjectBefore(h, _opRow, t)
  /\ pc' = [pc EXCEPT ![h] = "exec"]
  /\ calls' = [calls EXCEPT ![h].before = @ + 1]
  /\ UNCHANGED <<reqHdr, reqPc, cur, ops, extra, boot>>

beforeRaw(h) ==
  /\ pc[h] = "before" /\ Fires(h, "before", "beforeRaw")
  /\ \E t \in ClockReadings : InjectBefore(h, _opRaw, t)
  /\ pc' = [pc EXCEPT ![h] = "exec"]
  /\ calls' = [calls EXCEPT ![h].before = @ + 1]
  /\ UNCHANGED <<reqHdr, reqPc, cur, ops, extra, boot>>

\* span.LogFields(field): the field is appended to the span's log.
LogFields(span, key, value) ==
  [span EXCEPT !.logs = Append(@, <<key, value>>)]

\* span.Finish(): the end time is taken and the span counts as finished;
\* the tracer does not remember an earlier Finish.
Finish(span, t) ==
  [span EXCEPT !.endTime = t, !.finished = @ + 1]

\* Variant of Annotate: the error field is logged whether or not the
\* operation failed.
Annotate_AlwaysLogsError(span, d) ==
  LET s0 == LogFields(span, "error", d.Error)
      s1 == LogFields(s0, "sql", Explain(d.SQL, d.Vars))
      s2 == LogFields(s1, "table", d.Table)
      s3 == LogFields(s2, "query", d.SQL)
  IN  LogFields(s3, "bindings", d.SQL)

\* The fields after() logs, in order, for the handle's operation.
Annotate(span, d) ==
  LET s0 == IF d.Error # NoError
            THEN LogFields(span, "error", d.Error) ELSE span
      s1 == LogFields(s0, "sql", Explain(d.SQL, d.Vars))
      s2 == LogFields(s1, "table", d.Table)
      s3 == LogFields(s2, "query", d.SQL)
  IN  LogFields(s3, "bindings", d.SQL)

\* Whether the lookup and the type assertion of after() yield a span.
HoldsSpan(v) == v \notin {Absent, NilValue, NotASpan}

\* Variant of AfterHook: the operation's error is cleared once it has
\* been logged.
AfterHook_SwallowsError(h, t) ==
  IF db[h].Context = NilContext
  THEN /\ diag' = diag \cup {<<cur[h], "after">>}
       /\ UNCHANGED <<H, db, settings, spans, reported, now>>
  ELSE IF ~HoldsSpan(settings[h])
  THEN UNCHANGED <<H, db, settings, spans, reported, now, diag>>
  ELSE LET i == settings[h]
           done == Finish(Annotate(spans[i], db[h]), t)
       IN  /\ spans' = [spans EXCEPT ![i] =
                          [done EXCEPT !.finishedBy = Append(@, cur[h])]]
           /\ reported' = Append(reported, i)
           /\ now' = t
           /\ db' = [db EXCEPT ![h].Error = NoError]
           /\ UNCHANGED <<H, settings, diag>>

\* Variant of AfterHook: a stored value that is not a span is handed to
\* the reporter all the same.
AfterHook_NoTypeCheck(h, t) ==
  IF db[h].Context = NilContext
  THEN /\ diag' = diag \cup {<<cur[h], "after">>}
       /\ UNCHANGED <<H, db, settings, spans, reported, now>>
  ELSE IF settings[h] = Absent
  THEN UNCHANGED <<H, db, settings, spans, reported, now, diag>>
  ELSE IF ~HoldsSpan(settings[h])
  THEN /\ reported' = Append(reported, settings[h])
       /\ UNCHANGED <<H, db, settings, spans, now, diag>>
  ELSE LET i == settings[h]
           done == Finish(Annotate(spans[i], db[h]), t)
       IN  /\ spans' = [spans EXCEPT ![i] =
                          [done EXCEPT !.finishedBy = Append(@, cur[h])]]
           /\ reported' = Append(reported, i)
           /\ now' = t
           /\ UNCHANGED <<H, db, settings, diag>>

\* Variant of AfterHook: the stored span is looked up and finished before
\* the statement's context is checked.
AfterHook_LookupFirst(h, t) ==
  IF ~HoldsSpan(settings[h])
  THEN IF db[h].Context = NilContext
       THEN /\ diag' = diag \cup {<<cur[h], "after">>}
            /\ UNCHANGED <<H, db, settings, spans, reported, now>>
       ELSE UNCHANGED <<H, db, settings, spans, reported, now, diag>>
  ELSE LET i == settings[h]
           done == Finish(Annotate(spans[i], db[h]), t)
       IN  /\ spans' = [spans EXCEPT ![i] =
                          [done EXCEPT !.finishedBy = Append(@, cur[h])]]
           /\ reported' = Append(reported, i)
           /\ now' = t
           /\ diag' = IF db[h].Context = NilContext
                      THEN diag \cup {<<cur[h], "after">>} ELSE diag
           /\ UNCHANGED <<H, db, settings>>

\* Variant of AfterHook: the carrier is decoded again when the span is
\* finished and the span is linked to what it holds then.
AfterHook_RelinksToCarrier(h, t) ==
  IF db[h].Context = NilContext
  THEN /\ diag' = diag \cup {<<cur[h], "after">>}
       /\ UNCHANGED <<H, db, settings, spans, reported, now>>
  ELSE IF ~HoldsSpan(settings[h])
  THEN UNCHANGED <<H, db, settings, spans, reported, now, diag>>
  ELSE LET i == settings[h]
           done == Finish(Annotate(spans[i], db[h]), t)
           parent == Extract(H).ctx
           linked == IF SpanContextIsValid(parent)
                     THEN [done EXCEPT !.context.traceID = parent.traceID,
                                       !.context.parentID = parent.spanID,
                                       !.context.sampled = parent.sampled]
                     ELSE done
       IN  /\ spans' = [spans EXCEPT ![i] =
                          [linked EXCEPT !.finishedBy = Append(@, cur[h])]]
           /\ reported' = Append(reported, i)
           /\ now' = t
           /\ UNCHANGED <<H, db, settings, diag>>

\* after(db) on handle h, reading the clock as t.  A call with db = nil
\* returns at once and changes nothing.  The deferred Finish runs last and
\* hands the span to the reporter; the stored value stays in place.
AfterHook(h, t) ==
  IF db[h].Context = NilContext
  THEN /\ diag' = diag \cup {<<cur[h], "after">>}
       /\ UNCHANGED <<H, db, settings, spans, reported, now>>
  ELSE IF ~HoldsSpan(settings[h])
  THEN UNCHANGED <<H, db, settings, spans, reported, now, diag>>
  ELSE LET i == settings[h]
           done == Finish(Annotate(spans[i], db[h]), t)
       IN  /\ spans' = [spans EXCEPT ![i] =
                          [done EXCEPT !.finishedBy = Append(@, cur[h])]]
           /\ reported' = Append(reported, i)
           /\ now' = t
           /\ UNCHANGED <<H, db, settings, diag>>

after(h) ==
  /\ pc[h] = "after" /\ Fires(h, "after", "after")
  /\ \E t \in ClockReadings : AfterHook(h, t)
  /\ pc' = [pc EXCEPT ![h] = "done"]
  /\ calls' = [calls EXCEPT ![h].after = @ + 1]
  /\ UNCHANGED <<reqHdr, reqPc, cur, ops, extra, boot>>

Next ==
  \/ \E r \in Requests : \E c \in Inbound(r) : SetH(r, c)
  \/ \E h \in Handles : \E kind \in KindsOf(h) : BeginOp(h, kind)
  \/ \E h \in Handles : beforeCreate(h)
  \/ \E h \in Handles : beforeUpdate(h)
  \/ \E h \in Handles : beforeQuery(h)
  \/ \E h \in Handles : beforeDelete(h)
  \/ \E h \in Handles : beforeRow(h)
  \/ \E h \in Handles : beforeRaw(h)
  \/ \E h \in Handles, e \in Errors : Exec(h, e)
  \/ \E h \in Handles : after(h)

Spec == Init /\ [][Next]_vars


\* ------------------------------------------- host that always has a context
\* As BeginOp, for a host that passes a context with every operation:
\* where BeginOp passes none, the statement has gorm's default,
\* context.Background().
BeginWithContext(h, kind) ==
  /\ proc = "running"
  /\ pc[h] \in {"idle", "done"}
  /\ reqPc[Owner(h)] = "set"
  /\ Len(ops) < MaxOps
  /\ LET ctx == IF ContextOf(kind) = NilContext THEN Background
                ELSE ContextOf(kind)
     IN  /\ db' = [db EXCEPT ![h] =
                     [Context |-> ctx, Error |-> NoError,
                      Table |-> TableOf(kind),
                      SQL |-> StatementSQL(kind, TableOf(kind)),
                      Vars |-> StatementVars(kind), kind |-> kind]]
         /\ ops' = Append(ops, [handle |-> h, kind |-> kind,
                                Context |-> ctx, Error |-> NoError])
  /\ pc' = [pc EXCEPT ![h] = "before"]
  /\ cur' = [cur EXCEPT ![h] = Len(ops) + 1]
  /\ UNCHANGED <<H, reqHdr, reqPc, settings, spans, reported, now, diag,
                 calls, extra, boot>>

NextCtx ==
  \/ \E r \in Requests : \E c \in Inbound(r) : SetH(r, c)
  \/ \E h \in Handles : \E kind \in KindsOf(h) : BeginWithContext(h, kind)
  \/ \E h \in Handles : beforeCreate(h)
  \/ \E h \in Handles : beforeUpdate(h)
  \/ \E h \in Handles : beforeQuery(h)
  \/ \E h \in Handles : beforeDelete(h)
  \/ \E h \in Handles : beforeRow(h)
  \/ \E h \in Handles : beforeRaw(h)
  \/ \E h \in Handles, e \in Errors : Exec(h, e)
  \/ \E h \in Handles : after(h)

SpecCtx == Init /\ [][NextCtx]_vars

\* ---------------------------------------------------------------- startup
\* The outcomes of config.Configuration{...}.NewTracer.
TracerErrors == {"nil", "invalid configuration"}

InitBoot ==
  /\ H = HdrNone
  /\ reqHdr = [r \in Requests |-> HdrNone]
  /\ reqPc = [r \in Requests |-> "idle"]
  /\ db = [h \in Handles |-> IdleDB]
  /\ pc = [h \in Handles |-> "idle"]
  /\ cur = [h \in Handles |-> 0]
  /\ settings = [h \in Handles |-> Absent]
  /\ spans = <<>>
  /\ reported = <<>>
  /\ now = 0
  /\ ops = <<>>
  /\ diag = {}
  /\ calls = [h \in Handles |-> [before |-> 0, after |-> 0]]
  /\ extra = 0
  /\ proc = "start"
  /\ tracer = NoopTracer
  /\ registry = {}
  /\ initErr = NoRegError

\* Variant of NewDefault: a failed construction of the tracer is logged
\* and the plugin is returned all the same.
NewDefault_IgnoresError(err) ==
  /\ proc = "start"
  /\ IF err # "nil"
     THEN /\ proc' = "plugin"
          /\ UNCHANGED tracer
     ELSE /\ tracer' = JaegerTracer
          /\ proc' = "plugin"
  /\ UNCHANGED <<H, reqHdr, reqPc, db, pc, cur, settings, spans, reported,
                 now, ops, diag, calls, extra, registry, initErr>>

\* NewDefault(svcName, collectorEndpoint) with bootTracerBasedJaeger: if
\* NewTracer fails the process exits with status 1, otherwise the tracer
\* becomes the global tracer and the plugin is returned.
NewDefault(err) ==
  /\ proc = "start"
  /\ IF err # "nil"
     THEN /\ proc' = "exited"
          /\ UNCHANGED tracer
     ELSE /\ tracer' = JaegerTracer
          /\ proc' = "plugin"
  /\ UNCHANGED <<H, reqHdr, reqPc, db, pc, cur, settings, spans, reported,
                 now, ops, diag, calls, extra, registry, initErr>>

\* Initialize(db), called by db.Use(plugin): the twelve Register calls are
\* all made while the slice is built, then the loop returns the first
\* error.  The host goes on to serve requests only if db.Use succeeded.
Initialize ==
  /\ proc = "plugin"
  /\ \E outcome \in RegOutcomes :
       /\ registry' = registry \cup Registered(outcome)
       /\ initErr' = FirstError(outcome)
  /\ proc' = IF initErr' = NoRegError THEN "running" ELSE "failed"
  /\ UNCHANGED <<H, reqHdr, reqPc, db, pc, cur, settings, spans, reported,
                 now, ops, diag, calls, extra, tracer>>

\* The process from its start: startup, then the host of Next.
NextBoot ==
  \/ \E err \in TracerErrors : NewDefault(err)
  \/ Initialize
  \/ Next

SpecBoot == InitBoot /\ [][NextBoot]_vars

\* ------------------------------------------------- out-of-order host events
\* gorm fires the after callback once more on a handle whose operation
\* has completed.
afterAgain(h) ==
  /\ pc[h] = "done"
  /\ extra < MaxExtra
  /\ \E t \in ClockReadings : AfterHook(h, t)
  /\ calls' = [calls EXCEPT ![h].after = @ + 1]
  /\ extra' = extra + 1
  /\ UNCHANGED <<reqHdr, reqPc, pc, cur, ops, boot>>

\* The before callback of the operation's kind fires a second time before
\* the operation completes.
beforeAgain(h) ==
  /\ pc[h] = "exec"
  /\ extra < MaxExtra
  /\ \E t \in ClockReadings : InjectBefore(h, db[h].kind, t)
  /\ calls' = [calls EXCEPT ![h].before = @ + 1]
  /\ extra' = extra + 1
  /\ UNCHANGED <<reqHdr, reqPc, pc, cur, ops, boot>>

\* The operation runs with no before callback registered for its kind.
SkipBefore(h) ==
  /\ pc[h] = "before"
  /\ extra < MaxExtra
  /\ pc' = [pc EXCEPT ![h] = "exec"]
  /\ extra' = extra + 1
  /\ UNCHANGED <<H, reqHdr, reqPc, db, cur, settings, spans, reported, now,
                 ops, diag, calls, boot>>

\* The statement loses its context between the two hooks.
DropContext(h) ==
  /\ pc[h] = "exec"
  /\ extra < MaxExtra
  /\ db[h].Context # NilContext
  /\ db' = [db EXCEPT ![h].Context = NilContext]
  /\ extra' = extra + 1
  /\ UNCHANGED <<H, reqHdr, reqPc, pc, cur, settings, spans, reported, now,
                 ops, diag, calls, boot>>

\* Other code of the host stores a nil or a non-span value under spankey
\* with db.InstanceSet between the two hooks.
ForeignStore(h, v) ==
  /\ pc[h] = "exec"
  /\ extra < MaxExtra
  /\ settings' = [settings EXCEPT ![h] = v]
  /\ extra' = extra + 1
  /\ UNCHANGED <<H, reqHdr, reqPc, db, pc, cur, spans, reported, now, ops,
                 diag, calls, boot>>

\* The host when the after callback may fire again.
NextRefire ==
  \/ Next
  \/ \E h \in Handles : afterAgain(h)

SpecRefire == Init /\ [][NextRefire]_vars

\* The host with a missing before callback or foreign values under
\* spankey.
NextStore ==
  \/ Next
  \/ \E h \in Handles : SkipBefore(h)
  \/ \E h \in Handles, v \in {NilValue, NotASpan} : ForeignStore(h, v)

SpecStore == Init /\ [][NextStore]_vars

\* The host whose statement can lose its context between the hooks.
NextDrop ==
  \/ Next
  \/ \E h \in Handles : DropContext(h)

SpecDrop == Init /\ [][NextDrop]_vars

\* The host whose before callback can fire twice for one operation.
NextRebefore ==
  \/ Next
  \/ \E h \in Handles : beforeAgain(h)

SpecRebefore == Init /\ [][NextRebefore]_vars

\* The host with every out-of-order event.
NextAny ==
  \/ Next
  \/ \E h \in Handles : afterAgain(h)
  \/ \E h \in Handles : beforeAgain(h)
  \/ \E h \in Handles : SkipBefore(h)
  \/ \E h \in Handles : DropContext(h)
  \/ \E h \in Handles, v \in {NilValue, NotASpan} : ForeignStore(h, v)

SpecAny == Init /\ [][NextAny]_vars


\* ----------------------------------------------------------------- claims
SpanIds == 1..Len(spans)

\* The handle on which the operation that created span i runs.
HandleOf(i) == ops[spans[i].createdBy].handle

\* The operation that created span i has had its after hook.
Completed(i) ==
  \/ cur[HandleOf(i)] # spans[i].createdBy
  \/ pc[HandleOf(i)] = "done"

\* A carrier that decodes to a valid trace context.
WellFormed(carrier) ==
  /\ Extract(carrier).err = "nil"
  /\ SpanContextIsValid(Extract(carrier).ctx)

\* C1: over any sequence of before and after invocations, a span stored
\* by a before hook is finished exactly once, by the after hook of its own
\* operation, and no span is ever finished twice, also when after fires
\* more than once on the same handle or the handle is used again.
C1_FinishedExactlyOnce ==
  \A i \in SpanIds :
    /\ spans[i].finished <= 1
    /\ Completed(i) => spans[i].finishedBy = <<spans[i].createdBy>>

\* C2: with concurrent requests that each set H to their own well-formed
\* headers before their operations, every span has the trace id of the
\* carrier of the request that issued its operation and that carrier's
\* span id as parent.
C2_SpanFollowsOwnRequest ==
  \A i \in SpanIds :
    LET c == reqHdr[Owner(HandleOf(i))]
    IN  (\A r \in Requests : reqPc[r] = "set" => WellFormed(reqHdr[r]))
          => /\ spans[i].context.traceID = Extract(c).ctx.traceID
             /\ spans[i].context.parentID = Extract(c).ctx.spanID

\* A step in which a before hook runs on handle h.
BeforeRuns(h) == calls'[h].before = calls[h].before + 1

\* A step in which the after hook runs on handle h.
AfterRuns(h) == calls'[h].after = calls[h].after + 1

\* A step in which a before hook runs on handle h and stores a new span.
BeforeStores(h) ==
  /\ BeforeRuns(h)
  /\ Len(spans') = Len(spans) + 1
  /\ settings'[h] = Len(spans')

\* C3: a before hook that runs with the operation context present while H
\* holds a well-formed trace context creates a span whose trace id is the
\* one decoded from H at that moment and whose parent id is the span id
\* decoded from H.
C3_ChildOfCarrier ==
  [][\A h \in Handles :
       (BeforeStores(h) /\ WellFormed(H)) =>
         LET s == spans'[Len(spans')]
         IN  /\ s.context.traceID = Extract(H).ctx.traceID
             /\ s.context.parentID = Extract(H).ctx.spanID]_vars

\* A span of an operation whose context carries the caller's span was
\* created under the well-formed carrier HdrA and is a child of it.
C3_Witness ==
  \E i \in SpanIds :
    /\ spans[i].operationName \in {_opQuery, _opRow}
    /\ H = HdrA
    /\ reqPc = [r \in Requests |-> IF r = 1 THEN "set" ELSE "idle"]
    /\ spans[i].context.traceID = [High |-> 0, Low |-> 26]
    /\ spans[i].context.parentID = 15


\* The value logged under key on span i, as a set (empty if none).
Logged(i, key) ==
  {spans[i].logs[k][2] : k \in {j \in 1..Len(spans[i].logs) :
                                   spans[i].logs[j][1] = key}}

\* The statement of operation o as gorm built it.
SQLOfOp(o) == StatementSQL(ops[o].kind, TableOf(ops[o].kind))

\* C4: with concurrent operations whose before and after hooks interleave
\* arbitrarily, each after hook finishes the span its own operation's
\* before hook created, never another operation's, and the statement,
\* table and error on a span are those of that operation only.
C4_NoCrossContamination ==
  /\ \A i \in SpanIds :
       LET o == spans[i].createdBy
       IN  /\ \A k \in 1..Len(spans[i].finishedBy) :
                spans[i].finishedBy[k] = o
           /\ Logged(i, "table") \subseteq {TableOf(ops[o].kind)}
           /\ Logged(i, "query") \subseteq {SQLOfOp(o)}
           /\ Logged(i, "sql") \subseteq
                {Explain(SQLOfOp(o), StatementVars(ops[o].kind))}
           /\ Logged(i, "error") \subseteq {ops[o].Error}
  /\ \A h \in Handles :
       (pc[h] = "done" /\ db[h].Context # NilContext) =>
         /\ HoldsSpan(settings[h])
         /\ spans[settings[h]].createdBy = cur[h]
         /\ Len(spans[settings[h]].finishedBy) >= 1

\* Two operations were in flight at once, the one that began first
\* finished last, and both spans are finished: a users span with an error
\* and an orders span without.
C4_Witness ==
  /\ Len(spans) = 2 /\ Len(reported) = 2
  /\ HandleOf(1) # HandleOf(2)
  /\ spans[1].createdBy = 1 /\ reported = <<2, 1>>
  /\ Logged(1, "table") = {"users"} /\ Logged(2, "table") = {"orders"}
  /\ Logged(1, "error") = {"duplicate key"} /\ Logged(2, "error") = {}


\* The span just appended is a root: no parent and a trace id that no
\* earlier span and no caller span has.
NewRoot ==
  LET s == spans'[Len(spans')]
  IN  /\ s.context.parentID = 0
      /\ s.context.traceID # CallerSpanContext.traceID
      /\ \A j \in SpanIds : spans[j].context.traceID # s.context.traceID

C6_HooksLeaveOperationAlone ==
  [][\A h \in Handles :
       (BeforeRuns(h) \/ AfterRuns(h)) =>
         /\ db'[h].Error = db[h].Error
         /\ db'[h].SQL = db[h].SQL
         /\ db'[h].Vars = db[h].Vars
         /\ db'[h].Table = db[h].Table]_vars

\* A failed operation has been through both hooks, its span is finished
\* and carries the error, and the handle still reports the error.
C6_Witness ==
  \E h \in Handles :
    /\ pc[h] = "done"
    /\ db[h].Error = "duplicate key"
    /\ db[h].SQL = SQLOfOp(cur[h])
    /\ HoldsSpan(settings[h])
    /\ spans[settings[h]].finished = 1
    /\ Logged(settings[h], "error") = {"duplicate key"}

\* C7: when the statement or its context is missing as a before hook
\* fires, no span is created and nothing is stored for the operation, and
\* the operation's after hook finishes and reports no span.
C7_UnboundWithoutContext ==
  [][\A h \in Handles :
       (db[h].Context = NilContext /\ (BeforeRuns(h) \/ AfterRuns(h))) =>
         UNCHANGED <<spans, settings, reported>>]_vars

\* An operation without a context completed on a handle that still holds
\* the finished span of an earlier operation; both hooks left a
\* diagnostic and no span was created for it.
C7_Witness ==
  \E h \in Handles :
    /\ pc[h] = "done"
    /\ db[h].Context = NilContext
    /\ {<<cur[h], "before">>, <<cur[h], "after">>} \subseteq diag
    /\ HoldsSpan(settings[h])
    /\ spans[settings[h]].finished = 1
    /\ \A i \in SpanIds : spans[i].createdBy # cur[h]

\* C8: when the after hook finds no value under spankey, a nil value or
\* a value that is not a span, it does nothing: no span is finished,
\* nothing is annotated or reported, and the hook returns.
C8_NoSpanNoOp ==
  [][\A h \in Handles :
       (AfterRuns(h) /\ db[h].Context # NilContext
          /\ ~HoldsSpan(settings[h]))
         => /\ pc'[h] = "done"
            /\ UNCHANGED <<spans, reported, settings, diag, db>>]_vars

\* The after hook returned on a handle whose stored value is not a span,
\* with a span created for the operation left unfinished and unreported.
C8_Witness ==
  \E h \in Handles :
    /\ pc[h] = "done"
    /\ db[h].Context # NilContext
    /\ settings[h] = NotASpan
    /\ \E i \in SpanIds : spans[i].createdBy = cur[h] /\ spans[i].finished = 0
    /\ reported = <<>>

\* C9: every span handed to the reporter has a start time and an end
\* time with end >= start, is finished, and has been handed over at most
\* once.
C9_ReportedSpansComplete ==
  \A k \in 1..Len(reported) :
    LET s == spans[reported[k]]
    IN  /\ s.startTime # NoTime
        /\ s.endTime # NoTime
        /\ s.endTime >= s.startTime
        /\ s.finished >= 1
        /\ \A j \in 1..Len(reported) : j # k => reported[j] # reported[k]

\* C10: a span the after hook has finished carries an error annotation
\* with the operation's error if the operation reported one, and no error
\* annotation if it reported none.
C10_ErrorAnnotation ==
  \A i \in SpanIds :
    spans[i].finished >= 1 =>
      LET e == ops[spans[i].createdBy].Error
      IN  Logged(i, "error") = IF e # NoError THEN {e} ELSE {}

\* One handle ran a failed operation and then a successful one: the first
\* span carries the error, the second carries none.
C10_Witness ==
  /\ Len(spans) = 2
  /\ HandleOf(1) = HandleOf(2)
  /\ spans[1].finished = 1 /\ spans[2].finished = 1
  /\ Logged(1, "error") = {"duplicate key"}
  /\ Logged(2, "error") = {}
  /\ ops[spans[2].createdBy].Error = NoError

\* C11: once the after hook has finished an operation's span, the handle
\* no longer holds that span, so a later after on the same handle finds
\* nothing stored.
C11_ClearedAfterFinish ==
  [][\A h \in Handles :
       (AfterRuns(h) /\ db[h].Context # NilContext /\ HoldsSpan(settings[h]))
         => ~HoldsSpan(settings'[h])]_vars

\* C12: for each of the six kinds K, the span created by the before hook
\* registered for K has operation name K, and the one after handler
\* completes the spans of all six kinds and leaves the name as it is.
C12_OperationNames ==
  \A i \in SpanIds :
    /\ spans[i].operationName = ops[spans[i].createdBy].kind
    /\ spans[i].operationName \in OpKinds
    /\ Completed(i) => spans[i].finished = 1

\* An update and a raw operation, on different handles, have both been
\* completed by the after handler and their spans keep their names.
C12_Witness ==
  /\ Len(spans) = 2
  /\ spans[1].operationName = _opUpdate /\ spans[1].finished = 1
  /\ spans[2].operationName = _opRaw /\ spans[2].finished = 1
  /\ ops[1].kind = _opUpdate /\ ops[2].kind = _opRaw

\* C13: finishing is the last step of the after hook: every annotation
\* (error, sql, table, query, bindings) is attached before the span is
\* marked finished and handed to the reporter, and no annotation is ever
\* added to a span after it is finished.
C13_NoAnnotationAfterFinish ==
  [][\A i \in SpanIds :
       /\ spans[i].finished >= 1 => spans'[i].logs = spans[i].logs
       /\ (spans[i].finished = 0 /\ spans'[i].finished = 1) =>
            /\ {"sql", "table", "query", "bindings"} \subseteq
                 {spans'[i].logs[k][1] : k \in 1..Len(spans'[i].logs)}
            /\ reported' = Append(reported, i)]_vars

\* C14: a span finished by the after hook carries four distinct pieces of
\* operation metadata: the rendered SQL with the parameters substituted,
\* the raw parameterized statement text, the target table, and the
\* resolved parameter values of the operation.
C14_FourPiecesOfMetadata ==
  \A i \in SpanIds :
    spans[i].finished >= 1 =>
      LET kind == ops[spans[i].createdBy].kind
      IN  /\ Logged(i, "sql") = {Explain(SQLOfOp(spans[i].createdBy),
                                         StatementVars(kind))}
          /\ Logged(i, "query") = {SQLOfOp(spans[i].createdBy)}
          /\ Logged(i, "table") = {TableOf(kind)}
          /\ Logged(i, "bindings") = {StatementVars(kind)}

\* The callbacks registered for a kind at a position.
CallbacksAt(kind, at) ==
  {k \in 1..12 : /\ Registrations[k].name \in registry
                 /\ Registrations[k].kind = kind
                 /\ Registrations[k].at = at}

\* What holds of the registry and the returned value when Initialize has
\* returned.
InitializeReturned ==
    /\ (initErr = NoRegError) <=> (Cardinality(registry) = 12)
    /\ initErr = NoRegError =>
         \A kind \in OpKinds :
           /\ \E k \in 1..12 :
                /\ CallbacksAt(kind, "before") = {k}
                /\ Registrations[k].handler = BeforeHandler(kind)
           /\ \E k \in 1..12 :
                /\ CallbacksAt(kind, "after") = {k}
                /\ Registrations[k].handler = "after"
    /\ initErr # NoRegError =>
         /\ initErr \in 1..12
         /\ Registrations[initErr].name \notin registry
         /\ \A j \in 1..(initErr - 1) : Registrations[j].name \in registry

\* C15: Initialize registers, for each of the six kinds, exactly one
\* before handler placed before the host's operation step and exactly one
\* after handler placed after it; it returns nil if all twelve
\* registrations succeed and otherwise the first registration error in
\* registration order.  Nothing registers or unregisters afterwards.
C15_InitializeResult ==
  [][/\ (proc = "plugin" /\ proc' # "plugin") => InitializeReturned'
     /\ proc \in {"running", "failed"} => UNCHANGED <<registry, initErr>>]_vars

\* Initialize returned the error of the third registration although a
\* later one, the after handler of delete, failed as well.
C15_Witness ==
  /\ proc = "failed"
  /\ initErr = 3
  /\ Cardinality(registry) = 10
  /\ _eventAfterDelete \notin registry

\* C16: a span's parent linkage and sampling decision are fixed when the
\* before hook creates it: a change of the carrier H after before has run
\* and before after runs does not change the trace id, the parent span id
\* or the sampling decision of the span that after finishes.
C16_LinkageFixedAtCreation ==
  [][\A i \in SpanIds :
       /\ spans'[i].context.traceID = spans[i].context.traceID
       /\ spans'[i].context.parentID = spans[i].context.parentID
       /\ spans'[i].context.sampled = spans[i].context.sampled]_vars

\* Span 1 was created under HdrA; request 2 then replaced the carrier by
\* HdrB and completed an operation of its own before the after hook
\* finished span 1, which still has HdrA's trace id, span id as parent
\* and sampling decision.
C16_Witness ==
  /\ H = HdrB
  /\ Len(spans) = 2
  /\ reported = <<2, 1>>
  /\ Owner(HandleOf(1)) = 1 /\ Owner(HandleOf(2)) = 2
  /\ spans[1].finished = 1
  /\ spans[1].context.traceID = [High |-> 0, Low |-> 26]
  /\ spans[1].context.parentID = 15
  /\ spans[1].context.sampled
  /\ ~spans[2].context.sampled

\* C17: if constructing the tracer fails during NewDefault the process is
\* aborted and no plugin is returned; whenever NewDefault does return a
\* plugin the process-wide tracer has already been set, so no hook
\* registered through that plugin runs before the tracer is installed.
C17_TracerBeforePlugin ==
  /\ proc = "exited" => /\ tracer = NoopTracer
                        /\ registry = {}
                        /\ spans = <<>>
  /\ proc \in {"plugin", "running", "failed"} => tracer = JaegerTracer
  /\ \A h \in Handles :
       (calls[h].before > 0 \/ calls[h].after > 0) => tracer = JaegerTracer
  /\ registry # {} => tracer = JaegerTracer

\* After a startup in which NewDefault returned the plugin and Initialize
\* succeeded, both hooks have run for an operation and its span is
\* finished.
C17_Witness ==
  /\ proc = "running"
  /\ tracer = JaegerTracer
  /\ \E h \in Handles :
       /\ calls[h].before = 1 /\ calls[h].after = 1
       /\ HoldsSpan(settings[h])
       /\ spans[settings[h]].finished = 1

\* The after hook of the operation that created span i ran while the
\* statement had no context.
AfterWithoutContext(i) == <<spans[i].createdBy, "after">> \in diag

\* C18: the after hook checks the operation context before it looks up
\* the stored span: if a span was stored at before but the statement or
\* its context is missing when after fires, the span is never finished and
\* never reported, and the hook returns without error.
C18_LeakedWithoutContext ==
  \A i \in SpanIds :
    AfterWithoutContext(i) =>
      /\ Completed(i)
      /\ spans[i].finished = 0
      /\ spans[i].endTime = NoTime
      /\ spans[i].logs = <<>>
      /\ \A k \in 1..Len(reported) : reported[k] # i

\* A failed operation stored a span at before, lost its context, and its
\* after hook has returned: the handle still holds the unfinished span and
\* nothing was reported.
C18_Witness ==
  \E h \in Handles :
    /\ pc[h] = "done"
    /\ db[h].Context = NilContext
    /\ db[h].Error = "duplicate key"
    /\ HoldsSpan(settings[h])
    /\ spans[settings[h]].createdBy = cur[h]
    /\ AfterWithoutContext(settings[h])
    /\ spans[settings[h]].finished = 0
    /\ reported = <<>>

\* Span i was replaced on its handle: a later span was created for the
\* same operation.
Replaced(i) ==
  \E j \in SpanIds : j > i /\ spans[j].createdBy = spans[i].createdBy

\* C19: a handle holds at most one span: a second before hook on the same
\* handle with no after in between replaces the stored span, the
\* following after finishes only the most recently stored span, and the
\* earlier span is never finished or reported.
C19_LastStoredSpanWins ==
  /\ \A i \in SpanIds :
       Replaced(i) =>
         /\ spans[i].finished = 0
         /\ spans[i].logs = <<>>
         /\ \A k \in 1..Len(reported) : reported[k] # i
         /\ settings[HandleOf(i)] # i
  /\ \A i \in SpanIds :
       (~Replaced(i) /\ cur[HandleOf(i)] = spans[i].createdBy) =>
         /\ settings[HandleOf(i)] = i
         /\ pc[HandleOf(i)] = "done" =>
              /\ spans[i].finished = 1
              /\ \E k \in 1..Len(reported) : reported[k] = i

\* The before hook ran twice for one operation and the after hook once:
\* the second span is finished and reported, the first is neither.
C19_Witness ==
  \E h \in Handles :
    /\ pc[h] = "done"
    /\ calls[h].before = 2 /\ calls[h].after = 1
    /\ Len(spans) = 2
    /\ spans[1].createdBy = spans[2].createdBy
    /\ settings[h] = 2
    /\ spans[1].finished = 0 /\ spans[2].finished = 1
    /\ reported = <<2>>

====
